---- MODULE Spec2Model ----
(***************************************************************************)
(* Model of compress.py: the function resize_image_percentage (the         *)
(* Resizer) and the interactive entry point (the Input Collector).         *)
(*                                                                         *)
(* Python floats are IEEE-754 binary64 numbers.  They are modelled         *)
(* exactly: a float is a sign, a 53-bit significand held as a sequence of  *)
(* bits (most significant first) and a binary exponent, and every float    *)
(* operation the program performs (float(str), percentage / 100.0,         *)
(* width * resize_factor, int(...), the comparisons) is computed on that   *)
(* representation with round-to-nearest-even.                              *)
(***************************************************************************)
EXTENDS Integers, Sequences, FiniteSets, TLC

----------------------------------------------------------------------------
(* Bounds of the model *)

\* percentages handed directly to resize_image_percentage are k/2, k in 1..MaxPctHalves
MaxPctHalves == 202
\* prompts for the percentage that a run of the entry point may make
MaxAttempts == 3

----------------------------------------------------------------------------
(* IEEE-754 binary64 arithmetic on bit sequences *)

MantBits == 53
PadBits == 64

RECURSIVE Bits(_)
\* the binary digits of a natural number, most significant first
Bits(n) == IF n = 0 THEN << >> ELSE Append(Bits(n \div 2), n % 2)

RECURSIVE BitsToNat(_)
BitsToNat(b) ==
    IF b = << >> THEN 0
    ELSE 2 * BitsToNat(SubSeq(b, 1, Len(b) - 1)) + b[Len(b)]

RECURSIVE Strip(_)
\* drop leading zero digits
Strip(b) == IF b = << >> \/ b[1] = 1 THEN b ELSE Strip(Tail(b))

Zeros(k) == [i \in 1..k |-> 0]

Digits == {0, 1}

\* Binary long division of the digit sequence b by the small divisor d >= 1:
\* q the quotient digits (as many as b has), r the remainder.  One step
\* takes the running remainder r < d and the next digit; the steps over
\* b[lo..hi] are composed by halving the stretch, so that the depth of the
\* evaluation is logarithmic in the length of b.
LongDiv(b, d) ==
    LET div[lo \in Nat, hi \in Nat, acc \in [q : Seq(Digits), r : Nat]] ==
            IF lo > hi THEN acc
            ELSE IF lo = hi
            THEN LET t == 2 * acc.r + b[lo]
                 IN  IF t < d THEN [q |-> Append(acc.q, 0), r |-> t]
                     ELSE [q |-> Append(acc.q, 1), r |-> t - d]
            ELSE div[((lo + hi) \div 2) + 1, hi, div[lo, (lo + hi) \div 2, acc]]
    IN  div[1, Len(b), [q |-> << >>, r |-> 0]]

\* The digits of k * b for a small natural k, most significant first.  One
\* step takes the carry c from the less significant side and the next digit;
\* the steps over b[lo..hi] are composed from the least significant end.
MulSmall(k, b) ==
    LET mul[lo \in Nat, hi \in Nat, acc \in [q : Seq(Digits), c : Nat]] ==
            IF lo > hi THEN acc
            ELSE IF lo = hi
            THEN LET t == k * b[lo] + acc.c
                 IN  [q |-> <<t % 2>> \o acc.q, c |-> t \div 2]
            ELSE mul[lo, (lo + hi) \div 2, mul[((lo + hi) \div 2) + 1, hi, acc]]
        p == mul[1, Len(b), [q |-> << >>, c |-> 0]]
    IN  Bits(p.c) \o p.q

\* b + 1 on a digit sequence (one digit longer when b is all ones)
Incr(b) ==
    LET zs == {i \in 1..Len(b) : b[i] = 0}
    IN  IF zs = {} THEN <<1>> \o [i \in 1..Len(b) |-> 0]
        ELSE LET j == CHOOSE i \in zs : \A z \in zs : z <= i
             IN  [i \in 1..Len(b) |-> IF i < j THEN b[i] ELSE IF i = j THEN 1 ELSE 0]

AnyOne(b) == \E i \in 1..Len(b) : b[i] = 1

FZero == [neg |-> FALSE, m |-> << >>, e |-> 0]

\* the binary64 number nearest to (n / d) * 2^e, ties to even;
\* n a non-empty digit sequence without leading zeros, 1 <= d < 2^10
RoundRatio(neg, n, d, e) ==
    LET pad  == IF Len(n) < PadBits THEN PadBits - Len(n) ELSE 0
        num  == n \o Zeros(pad)
        dv   == LongDiv(num, d)
        q    == Strip(dv.q)
        L    == Len(q)
        top  == SubSeq(q, 1, MantBits)
        g    == q[MantBits + 1]
        rest == SubSeq(q, MantBits + 2, L)
        stk  == AnyOne(rest) \/ dv.r # 0
        up   == g = 1 /\ (stk \/ top[MantBits] = 1)
        inc  == Incr(top)
        e0   == e - pad + (L - MantBits)
    IN  IF ~up THEN [neg |-> neg, m |-> top, e |-> e0]
        ELSE IF Len(inc) = MantBits THEN [neg |-> neg, m |-> inc, e |-> e0]
        ELSE [neg |-> neg, m |-> SubSeq(inc, 1, MantBits), e |-> e0 + 1]

\* the float nearest to the rational n / d (n, d naturals, d >= 1)
FloatOfRatio(neg, n, d) ==
    IF n = 0 THEN [FZero EXCEPT !.neg = neg] ELSE RoundRatio(neg, Bits(n), d, 0)

\* x / d for a float x and a small Python number d >= 1 (100.0 in the program)
FDivSmall(x, d) ==
    IF x.m = << >> THEN x ELSE RoundRatio(x.neg, x.m, d, x.e)

\* k * x for a Python int k >= 0 (k is converted to float exactly, the product rounded)
FMulInt(k, x) ==
    IF x.m = << >> \/ k = 0 THEN [FZero EXCEPT !.neg = x.neg]
    ELSE RoundRatio(x.neg, MulSmall(k, x.m), 1, x.e)

\* int(x): truncation toward zero
FInt(x) ==
    LET keep == MantBits + x.e
        mag  == IF x.m = << >> \/ keep <= 0 THEN 0
                ELSE IF keep >= MantBits THEN BitsToNat(x.m \o Zeros(keep - MantBits))
                ELSE BitsToNat(SubSeq(x.m, 1, keep))
    IN  IF x.neg THEN 0 - mag ELSE mag

\* 0 < x
FPositive(x) == x.m # << >> /\ ~x.neg

\* x >= k for a Python int k >= 1
FGeInt(x, k) == FPositive(x) /\ FInt(x) >= k

\* x < k for a Python int k >= 1
FLtInt(x, k) == ~FGeInt(x, k)

----------------------------------------------------------------------------
(* float(str): the strings are sequences of characters.  The forms modelled *)
(* are the ones the inputs below use: surrounding blanks, a sign, decimal   *)
(* digits with at most one point.  Exponents, "inf", "nan" and underscores  *)
(* are not among the inputs.                                                *)

DigitChars == {"0", "1", "2", "3", "4", "5", "6", "7", "8", "9"}

DigitVal(c) ==
    CASE c = "0" -> 0 [] c = "1" -> 1 [] c = "2" -> 2 [] c = "3" -> 3
      [] c = "4" -> 4 [] c = "5" -> 5 [] c = "6" -> 6 [] c = "7" -> 7
      [] c = "8" -> 8 [] c = "9" -> 9

RECURSIVE DigitsToNat(_)
DigitsToNat(ds) ==
    IF ds = << >> THEN 0
    ELSE 10 * DigitsToNat(SubSeq(ds, 1, Len(ds) - 1)) + DigitVal(ds[Len(ds)])

RECURSIVE Pow10(_)
Pow10(k) == IF k = 0 THEN 1 ELSE 10 * Pow10(k - 1)

\* str.strip() as float() applies it
Trim(s) ==
    LET solid == {i \in 1..Len(s) : s[i] # " "}
    IN  IF solid = {} THEN << >>
        ELSE SubSeq(s, CHOOSE i \in solid : \A j \in solid : i <= j,
                       CHOOSE i \in solid : \A j \in solid : j <= i)

\* float(s): ok = FALSE stands for ValueError
ParseFloat(s) ==
    LET t    == Trim(s)
        sgn  == t # << >> /\ t[1] \in {"+", "-"}
        neg  == t # << >> /\ t[1] = "-"
        u    == IF sgn THEN Tail(t) ELSE t
        dots == {i \in 1..Len(u) : u[i] = "."}
        dot  == CHOOSE i \in dots : TRUE
        ip   == IF dots = {} THEN u ELSE SubSeq(u, 1, dot - 1)
        fp   == IF dots = {} THEN << >> ELSE SubSeq(u, dot + 1, Len(u))
        ds   == ip \o fp
        wf   == /\ Cardinality(dots) <= 1
                /\ ds # << >>
                /\ \A i \in 1..Len(ds) : ds[i] \in DigitChars
    IN  IF wf THEN [ok |-> TRUE, val |-> FloatOfRatio(neg, DigitsToNat(ds), Pow10(Len(fp)))]
        ELSE [ok |-> FALSE, val |-> FZero]

----------------------------------------------------------------------------
(* The image collaborator (PIL) and the console, as the program sees them *)

NoFailure == [ok |-> TRUE, exc |-> "-", text |-> "-"]

\* Image.open of a missing file
MissingFile == [ok |-> FALSE, exc |-> "FileNotFoundError", text |-> "No such file or directory"]
\* Image.open of a file that is no image; a save whose target cannot be written
BadData == [ok |-> FALSE, exc |-> "OSError", text |-> "cannot identify image file"]
\* Image.resize given a dimension that is not positive
BadSize == [ok |-> FALSE, exc |-> "ValueError", text |-> "height and width must be > 0"]
\* Image.resize or Image.save failing on the image data
Truncated == [ok |-> FALSE, exc |-> "OSError", text |-> "image file is truncated"]

DecodeOutcomes == {NoFailure, MissingFile, BadData}
ScaleOutcomes == {NoFailure, BadSize, Truncated}
\* save opens output_path for writing: a missing directory is a FileNotFoundError
EncodeOutcomes == {NoFailure, MissingFile, Truncated}

\* (width, height) of the decoded images
Sizes == {<<1, 1>>, <<100, 200>>}

NoSize == <<0, 0>>

\* what the collaborator does during one invocation; steps after a failing
\* step are never reached and are left at NoFailure
Envs ==
    {e \in [decode : DecodeOutcomes, size : Sizes \cup {NoSize},
            scale : ScaleOutcomes, save : EncodeOutcomes] :
        /\ e.decode.ok <=> e.size # NoSize
        /\ ~e.decode.ok => e.scale = NoFailure /\ e.save = NoFailure
        /\ ~e.scale.ok => e.save = NoFailure}

\* isinstance(e, cls) for the classes the except clauses name
IsInstance(e, cls) ==
    CASE cls = "FileNotFoundError" -> e.exc = "FileNotFoundError"
      [] cls = "Exception" -> e.exc \in {"FileNotFoundError", "OSError", "ValueError"}

\* calls made on the collaborator
OpenCall(path) ==
    [op |-> "open", handle |-> "-", path |-> path, fmt |-> "-", size |-> NoSize]
ResizeCall(dims) ==
    [op |-> "resize", handle |-> "img", path |-> "-", fmt |-> "-", size |-> dims]
SaveCall(handle, path, fmt) ==
    [op |-> "save", handle |-> handle, path |-> path, fmt |-> fmt, size |-> NoSize]

\* lines printed
Msg(kind, path, text, pct) == [kind |-> kind, path |-> path, text |-> text, pct |-> pct]

NoResizeMsg == Msg("no_resize", "-", "-", FZero)
SuccessMsg(percentage, output_path) == Msg("success", output_path, "-", percentage)
NotFoundMsg(input_path) == Msg("not_found", input_path, "-", FZero)
ProcessingMsg(text) == Msg("processing_error", "-", text, FZero)
ParseErrorMsg == Msg("parse_error", "-", "-", FZero)
RangeErrorMsg == Msg("range_error", "-", "-", FZero)

----------------------------------------------------------------------------
(* resize_image_percentage *)

\* variant: if percentage > 100
PassThroughAbove(percentage) ==
    FGeInt(percentage, 100) /\ percentage # FloatOfRatio(FALSE, 100, 1)

\* if percentage >= 100
PassThrough(percentage) == FGeInt(percentage, 100)

\* variant: the new dimensions clamped to at least one pixel
NewDimsAtLeastOne(size, percentage) ==
    LET resize_factor == FDivSmall(percentage, 100)
        w == FInt(FMulInt(size[1], resize_factor))
        h == FInt(FMulInt(size[2], resize_factor))
    IN  <<IF w < 1 THEN 1 ELSE w, IF h < 1 THEN 1 ELSE h>>

\* resize_factor, new_width, new_height
NewDims(size, percentage) ==
    LET resize_factor == FDivSmall(percentage, 100)
    IN  <<FInt(FMulInt(size[1], resize_factor)), FInt(FMulInt(size[2], resize_factor))>>

\* img.save(output_path)
SaveOriginal(output_path) == SaveCall("img", output_path, "-")

\* variant: resized_img.save(output_path)
SaveResizedByName(output_path) == SaveCall("resized", output_path, "-")

\* resized_img.save(output_path, "JPEG")
SaveResized(output_path) == SaveCall("resized", output_path, "JPEG")

\* variant: the except FileNotFoundError clause missing
ExceptGenericOnly(calls, printed, failure, input_path) ==
    IF IsInstance(failure, "Exception")
    THEN [calls |-> calls, out |-> Append(printed, ProcessingMsg(failure.text)), raised |-> FALSE]
    ELSE [calls |-> calls, out |-> printed, raised |-> TRUE]

\* the two except clauses, tried in order, for a failure raised inside the try
\* after the calls and the printed lines so far
Except(calls, printed, failure, input_path) ==
    IF IsInstance(failure, "FileNotFoundError")
    THEN [calls |-> calls, out |-> Append(printed, NotFoundMsg(input_path)), raised |-> FALSE]
    ELSE IF IsInstance(failure, "Exception")
    THEN [calls |-> calls, out |-> Append(printed, ProcessingMsg(failure.text)), raised |-> FALSE]
    ELSE [calls |-> calls, out |-> printed, raised |-> TRUE]

\* variant: the confirmation printed before the save instead of after it
ScaleAndSavePrintFirst(input_path, output_path, percentage, e) ==
    LET dims   == NewDims(e.size, percentage)
        calls1 == <<OpenCall(input_path), ResizeCall(dims)>>
        calls2 == Append(calls1, SaveResized(output_path))
        said   == <<SuccessMsg(percentage, output_path)>>
    IN  IF ~e.scale.ok THEN Except(calls1, << >>, e.scale, input_path)
        ELSE IF ~e.save.ok THEN Except(calls2, said, e.save, input_path)
        ELSE [calls |-> calls2, out |-> said, raised |-> FALSE]

\* the lines printed and the collaborator calls made by the scaling branch
ScaleAndSave(input_path, output_path, percentage, e) ==
    LET dims   == NewDims(e.size, percentage)
        calls1 == <<OpenCall(input_path), ResizeCall(dims)>>
        calls2 == Append(calls1, SaveResized(output_path))
    IN  IF ~e.scale.ok THEN Except(calls1, << >>, e.scale, input_path)
        ELSE IF ~e.save.ok THEN Except(calls2, << >>, e.save, input_path)
        ELSE [calls |-> calls2, out |-> <<SuccessMsg(percentage, output_path)>>,
              raised |-> FALSE]

\* the whole function, against the collaborator behaviour e
resize_image_percentage(input_path, output_path, percentage, e) ==
    IF ~e.decode.ok
    THEN Except(<<OpenCall(input_path)>>, << >>, e.decode, input_path)
    ELSE IF PassThrough(percentage)
    THEN LET calls1 == <<OpenCall(input_path), SaveOriginal(output_path)>>
         IN  IF ~e.save.ok THEN Except(calls1, <<NoResizeMsg>>, e.save, input_path)
             ELSE [calls |-> calls1, out |-> <<NoResizeMsg>>, raised |-> FALSE]
    ELSE ScaleAndSave(input_path, output_path, percentage, e)

----------------------------------------------------------------------------
(* State *)

VARIABLES
    pc,                 \* where the run stands
    input_file,         \* the names of the entry point
    output_file,
    resize_percentage,  \* << >> while unbound, <<float>> once assigned
    answers,            \* the lines typed at the two path prompts
    lines,              \* the lines typed at the percentage prompt
    out,                \* the lines printed, in order
    calls,              \* the calls made on the collaborator, in order
    invocations,        \* the argument lists resize_image_percentage was called with
    env,                \* how the collaborator behaved in the invocation
    opened,             \* image handles opened by Image.open
    live                \* of those, the ones not released

vars == <<pc, input_file, output_file, resize_percentage, answers, lines, out,
          calls, invocations, env, opened, live>>

InputPaths == {"input.jpg", "non_existent.jpg"}
OutputPaths == {"output.jpg", "output.png"}

\* the lines the user may type at the percentage prompt
PctLines ==
    { <<"a", "b", "c">>, <<"1", "0", "0">>, <<"0">>, <<"-", "5">>, << >>,
      <<"7", "5", ".", "5">>, <<" ", "5", "0">>, <<"2", "9">> }

NoEnv == [decode |-> NoFailure, size |-> NoSize, scale |-> NoFailure, save |-> NoFailure]

\* resize_image_percentage called directly, as the tests call it
Init ==
    /\ pc = "resize"
    /\ input_file \in InputPaths
    /\ output_file \in OutputPaths
    /\ resize_percentage \in {<<FloatOfRatio(FALSE, k, 2)>> : k \in 1..MaxPctHalves}
    /\ answers = << >>
    /\ lines = << >>
    /\ out = << >>
    /\ calls = << >>
    /\ invocations = << >>
    /\ env = NoEnv
    /\ opened = 0
    /\ live = 0

\* the start of the script
MainInit ==
    /\ pc = "input_file"
    /\ input_file = ""
    /\ output_file = ""
    /\ resize_percentage = << >>
    /\ answers = << >>
    /\ lines = << >>
    /\ out = << >>
    /\ calls = << >>
    /\ invocations = << >>
    /\ env = NoEnv
    /\ opened = 0
    /\ live = 0

----------------------------------------------------------------------------
(* The entry point *)

\* input_file = input(...)
PromptInputFile ==
    /\ pc = "input_file"
    /\ \E s \in InputPaths :
         /\ input_file' = s
         /\ answers' = Append(answers, s)
    /\ pc' = "output_file"
    /\ UNCHANGED <<output_file, resize_percentage, lines, out, calls, invocations,
                   env, opened, live>>

\* output_file = input(...)
PromptOutputFile ==
    /\ pc = "output_file"
    /\ \E s \in OutputPaths :
         /\ output_file' = s
         /\ answers' = Append(answers, s)
    /\ pc' = "percentage"
    /\ UNCHANGED <<input_file, resize_percentage, lines, out, calls, invocations,
                   env, opened, live>>

\* variant: if 0 < resize_percentage <= 100
ValidPercentageUpTo100(x) ==
    FPositive(x) /\ (FLtInt(x, 100) \/ x = FloatOfRatio(FALSE, 100, 1))

\* if 0 < resize_percentage < 100
ValidPercentage(x) == FPositive(x) /\ FLtInt(x, 100)

\* variant: the two paths passed in the wrong order
CallArgumentsSwapped(in, outp, pct) ==
    [input_path |-> outp, output_path |-> in, percentage |-> pct]

\* the arguments of the call that ends the script
CallArguments(in, outp, pct) ==
    [input_path |-> in, output_path |-> outp, percentage |-> pct]

\* one turn of the while True loop
PromptPercentage ==
    /\ pc = "percentage"
    /\ Len(lines) < MaxAttempts
    /\ \E s \in PctLines :
         LET parsed == ParseFloat(s)
         IN  /\ lines' = Append(lines, s)
             /\ IF ~parsed.ok
                THEN /\ out' = Append(out, ParseErrorMsg)
                     /\ UNCHANGED <<pc, resize_percentage>>
                ELSE /\ resize_percentage' = <<parsed.val>>
                     /\ IF ValidPercentage(parsed.val)
                        THEN pc' = "resize" /\ out' = out
                        ELSE pc' = pc /\ out' = Append(out, RangeErrorMsg)
    /\ UNCHANGED <<input_file, output_file, answers, calls, invocations, env,
                   opened, live>>

\* resize_image_percentage(input_file, output_file, resize_percentage), to its
\* return.  The function holds the handle in the local img and neither closes
\* it nor opens it in a with block: whether the handle is released when the
\* local goes out of scope is left to the interpreter's memory management.
CallResize ==
    /\ pc = "resize"
    /\ \E e \in Envs, collected \in BOOLEAN :
         LET a == CallArguments(input_file, output_file, resize_percentage[1])
             r == resize_image_percentage(a.input_path, a.output_path, a.percentage, e)
             n == IF e.decode.ok THEN 1 ELSE 0
         IN  /\ invocations' = Append(invocations, a)
             /\ env' = e
             /\ calls' = calls \o r.calls
             /\ out' = out \o r.out
             /\ opened' = opened + n
             /\ live' = IF collected THEN live ELSE live + n
             /\ pc' = IF r.raised THEN "raised" ELSE "done"
    /\ UNCHANGED <<input_file, output_file, resize_percentage, answers, lines>>

Next == CallResize

MainNext == PromptInputFile \/ PromptOutputFile \/ PromptPercentage \/ CallResize

Spec == Init /\ [][Next]_vars

MainSpec == MainInit /\ [][MainNext]_vars

----------------------------------------------------------------------------
(* Vocabulary of the properties *)

Returned == pc = "done"
Finished == pc \in {"done", "raised"}

\* the percentage the function was called with
Pct == invocations[1].percentage

\* 0 < x < 100 and x >= 100, on the float x
Inside0To100(x) == ~x.neg /\ x.m # << >> /\ FInt(x) < 100
AtLeast100(x) == ~x.neg /\ FInt(x) >= 100

\* twice the percentage as an integer (exact for the multiples of one half)
Halves(x) == FInt(FMulInt(2, x))

CallsOf(op) == SelectSeq(calls, LAMBDA c : c.op = op)
Count(kind) == Len(SelectSeq(out, LAMBDA m : m.kind = kind))

Decoded == Finished /\ env.decode.ok
ScaleFailed == Decoded /\ CallsOf("resize") # << >> /\ ~env.scale.ok
SaveFailed == Decoded /\ CallsOf("save") # << >> /\ ~env.save.ok
SaveCompleted == Decoded /\ CallsOf("save") # << >> /\ env.save.ok

ErrorKinds == {"not_found", "processing_error"}
OutcomeKinds == ErrorKinds \cup {"no_resize", "success"}

----------------------------------------------------------------------------
(* Properties of resize_image_percentage, under Spec *)

\* C1 (as claimed): for 0 < p < 100 and a source of size (W, H) that decodes,
\* the scale operation is called exactly once, with exactly
\* (floor(W*p/100), floor(H*p/100)).
C1_ExactFloorDims ==
    (Decoded /\ Inside0To100(Pct)) =>
        /\ Len(CallsOf("resize")) = 1
        /\ CallsOf("resize")[1].size =
              << (env.size[1] * Halves(Pct)) \div 200,
                 (env.size[2] * Halves(Pct)) \div 200 >>

\* C2: for p >= 100 and an input that decodes, scale is never called, the
\* original handle is saved exactly once to output_path, the no-resize line
\* is printed and the success line is not.
C2_PassThroughSavesOriginal ==
    (Decoded /\ AtLeast100(Pct)) =>
        /\ CallsOf("resize") = << >>
        /\ Len(CallsOf("save")) = 1
        /\ CallsOf("save")[1].handle = "img"
        /\ CallsOf("save")[1].path = output_file
        /\ Count("no_resize") = 1
        /\ Count("success") = 0

\* the boundary percentage 100, saved without failure
C2_Witness ==
    /\ Returned /\ env.decode.ok /\ env.save.ok
    /\ Pct = FloatOfRatio(FALSE, 100, 1)
    /\ Len(CallsOf("save")) = 1

\* C3: when the decode fails as not-found, whatever the percentage, the
\* not-found line naming input_path is the only line printed, the decode is
\* the only call on the collaborator (no scale, no save), and the function
\* returns normally.
C3_NotFoundOnDecode ==
    (Finished /\ env.decode = MissingFile) =>
        /\ out = <<Msg("not_found", input_file, "-", FZero)>>
        /\ CallsOf("resize") = << >>
        /\ CallsOf("save") = << >>
        /\ Returned

\* a missing input met with a percentage of at least 100
C3_Witness ==
    /\ Returned /\ env.decode = MissingFile /\ AtLeast100(Pct)
    /\ input_file = "non_existent.jpg"
    /\ Count("not_found") = 1

\* C4 (as claimed): a failure of any kind raised by the scale or by the save
\* is reported as the processing-error line carrying the failure's text and
\* never as the not-found line; the function returns normally, and after a
\* scale failure the scaled handle is never saved.
C4_ScaleOrSaveFailureIsProcessingError ==
    /\ ScaleFailed =>
          /\ out[Len(out)] = Msg("processing_error", "-", env.scale.text, FZero)
          /\ Count("not_found") = 0
          /\ CallsOf("save") = << >>
          /\ Returned
    /\ SaveFailed =>
          /\ out[Len(out)] = Msg("processing_error", "-", env.save.text, FZero)
          /\ Count("not_found") = 0
          /\ Returned

\* C7 (as claimed): every save names JPEG as the format, on the scaled path
\* and on the pass-through path alike.
C7_EverySaveNamesJPEG ==
    \A i \in 1..Len(calls) : calls[i].op = "save" => calls[i].fmt = "JPEG"

\* C7 (amended): the save of the scaled handle (percentage < 100) names JPEG
\* whatever the extension of output_path; the pass-through save (percentage
\* >= 100) names no format.
C7_ScaledSaveNamesJPEG ==
    \A i \in 1..Len(calls) :
        calls[i].op = "save" =>
            /\ calls[i].path = output_file
            /\ Inside0To100(Pct) => calls[i].handle = "resized" /\ calls[i].fmt = "JPEG"
            /\ AtLeast100(Pct) => calls[i].handle = "img" /\ calls[i].fmt = "-"

\* a scaled image written as JPEG to a name ending in .png
C7_Witness ==
    /\ Returned /\ output_file = "output.png" /\ Inside0To100(Pct)
    /\ \E i \in 1..Len(calls) : calls[i].op = "save" /\ calls[i].fmt = "JPEG"

\* C8 (as claimed): an invocation opens at most one image handle, and that
\* handle is released by the time the function returns.
C8_HandleReleasedOnReturn ==
    Finished => opened <= 1 /\ live = 0

\* C9: no minimum dimension is enforced.  For 0 < p < 100 and a source whose
\* target width or height truncates to 0, scale is still called, once, with
\* the zero; if the collaborator rejects the dimensions the processing-error
\* line is printed, nothing is saved and the function returns normally.
C9_ZeroDimensionsReachScale ==
    (Decoded /\ Inside0To100(Pct)) =>
        /\ env.size[1] * Halves(Pct) < 200 =>
              Len(CallsOf("resize")) = 1 /\ CallsOf("resize")[1].size[1] = 0
        /\ env.size[2] * Halves(Pct) < 200 =>
              Len(CallsOf("resize")) = 1 /\ CallsOf("resize")[1].size[2] = 0
        /\ (/\ env.size[1] * Halves(Pct) < 200 \/ env.size[2] * Halves(Pct) < 200
            /\ ~env.scale.ok) =>
              /\ out = <<Msg("processing_error", "-", env.scale.text, FZero)>>
              /\ CallsOf("save") = << >>
              /\ Returned

\* a one-pixel-wide source scaled to width 0 and rejected by the collaborator
C9_Witness ==
    /\ Returned /\ env.decode.ok /\ env.size[1] = 1 /\ env.scale = BadSize
    /\ CallsOf("resize") # << >>
    /\ CallsOf("resize")[1].size[1] = 0
    /\ Count("processing_error") = 1

\* C10 (as claimed): every invocation prints exactly one of the four outcome
\* lines; the no-resize line and the success line only when the save
\* completed, and never together with an error line.
C10_ExactlyOneOutcomeLine ==
    Finished =>
        /\ Len(out) = 1
        /\ out[1].kind \in OutcomeKinds
        /\ out[1].kind \in {"no_resize", "success"} => SaveCompleted

\* C10 (amended): every invocation prints one outcome line, except a
\* pass-through (percentage >= 100) whose save fails, which prints the
\* no-resize line (printed before the save is attempted) and then one error
\* line; the success line is printed only when the save completed and never
\* together with an error line.
C10_OneLineOrNoResizeThenError ==
    Finished =>
        /\ Returned
        /\ Len(out) \in {1, 2}
        /\ \A i \in 1..Len(out) : out[i].kind \in OutcomeKinds
        /\ Len(out) = 2 <=> (AtLeast100(Pct) /\ SaveFailed)
        /\ Len(out) = 2 => out[1].kind = "no_resize" /\ out[2].kind \in ErrorKinds
        /\ Count("success") > 0 => Len(out) = 1 /\ SaveCompleted
        /\ (Len(out) = 1 /\ out[1].kind = "no_resize") => SaveCompleted

\* a pass-through whose save failed: the no-resize line, then the error line
C10_Witness ==
    /\ Returned /\ AtLeast100(Pct) /\ SaveFailed
    /\ Len(out) = 2
    /\ out[1].kind = "no_resize"

----------------------------------------------------------------------------
(* Properties of the entry point, under MainSpec *)

\* the line parses as a float
Numeric(s) == ParseFloat(s).ok

\* the line parses as a float strictly between 0 and 100
Acceptable(s) == Numeric(s) /\ Inside0To100(ParseFloat(s).val)

ValidationLines == SelectSeq(out, LAMBDA m : m.kind \in {"parse_error", "range_error"})
RejectedLines == SelectSeq(lines, LAMBDA s : ~Acceptable(s))

\* C5: the loop ends at the first line that parses as a float strictly
\* between 0 and 100 and never before; every earlier line is answered by
\* exactly one line, the parse error for a line that is no number and the
\* range error for a number outside (0,100), and by another prompt; the loop
\* ends holding the accepted number.
C5_LoopEndsAtFirstAcceptableLine ==
    /\ \A i \in 1..(Len(lines) - 1) : ~Acceptable(lines[i])
    /\ pc \in {"input_file", "output_file"} => lines = << >>
    /\ pc = "percentage" => \A i \in 1..Len(lines) : ~Acceptable(lines[i])
    /\ pc \in {"resize", "done", "raised"} =>
          /\ lines # << >>
          /\ Acceptable(lines[Len(lines)])
          /\ resize_percentage = <<ParseFloat(lines[Len(lines)]).val>>
    /\ Len(ValidationLines) = Len(RejectedLines)
    /\ \A i \in 1..Len(RejectedLines) :
          ValidationLines[i].kind =
              IF Numeric(RejectedLines[i]) THEN "range_error" ELSE "parse_error"

\* "abc", then "100", then "75.5": one parse error, one range error, loop left
C5_Witness ==
    /\ pc = "resize"
    /\ lines = << <<"a", "b", "c">>, <<"1", "0", "0">>, <<"7", "5", ".", "5">> >>
    /\ Count("parse_error") = 1
    /\ Count("range_error") = 1
    /\ Halves(resize_percentage[1]) = 151

\* C6: the function is invoked at most once, and exactly once in a run that
\* reaches its end; only after the loop has ended; with the two paths as
\* typed at the first two prompts and the accepted percentage, which is
\* strictly between 0 and 100, so that the pass-through branch is never taken.
C6_ResizerInvokedOnceWithValidatedInput ==
    /\ Len(invocations) <= 1
    /\ Finished <=> Len(invocations) = 1
    /\ invocations # << >> =>
          /\ Len(answers) = 2
          /\ invocations[1].input_path = answers[1]
          /\ invocations[1].output_path = answers[2]
          /\ lines # << >>
          /\ Acceptable(lines[Len(lines)])
          /\ Pct = ParseFloat(lines[Len(lines)]).val
          /\ Inside0To100(Pct)
          /\ Count("no_resize") = 0
          /\ \A i \in 1..Len(calls) : calls[i].op = "save" => calls[i].handle = "resized"

\* a run that rejected two lines, then called the function, which saved
C6_Witness ==
    /\ Returned /\ Len(lines) = 3 /\ Len(invocations) = 1
    /\ answers = <<"input.jpg", "output.png">>
    /\ Count("success") = 1

====
